---- MODULE Spec2Model ----
(***************************************************************************)
(* gmap-llm: a places-search backend (main_tool.py) and two LLM            *)
(* tool-calling clients (cli_app.py, frontend_app.py).                     *)
(*                                                                         *)
(* Spec       : one request to the backend: /find-places,                  *)
(*              /find-places-llm, or a direct call of get_all_places.      *)
(* SpecClient : the conversation loop of the CLI client or the chat UI.    *)
(***************************************************************************)
EXTENDS Integers, Sequences, FiniteSets, TLC

(***************************************************************************)
(* Bounds of the model.                                                    *)
(***************************************************************************)
\* the provider returns at most this many records in one page
MaxBatch == 4
\* the largest page number a request asks for
MaxPage == 3
\* the provider's continuation cursors are 1..MaxToken
MaxToken == 2

(***************************************************************************)
(* Program constants.                                                      *)
(***************************************************************************)
\* main_tool.py:115  max_requests = 3
max_requests == 3
\* main_tool.py:155  top_n > 60
TopNMax == 60
\* main_tool.py:162  get_all_places(query, max_results=60)
SearchMaxResults == 60
\* main_tool.py:55-56  PlaceRequest defaults
DefaultTopN == 5
DefaultPage == 1

\* Python's None for integer-valued and token-valued fields.
None == 0

(***************************************************************************)
(* Inputs.                                                                 *)
(***************************************************************************)
\* top_n values a request carries: 1..60 and one value off each end.
TopNValues == 0..(TopNMax + 1)
PageValues == 0..MaxPage
\* max_results values of a direct call of get_all_places.
MaxResultsValues == {0, 1, 3, SearchMaxResults}
RawQuery == "sushi NYC"
\* what the preprocessing LLM may answer
RewrittenQueries == {"sushi restaurant New York"}

(***************************************************************************)
(* The provider's records.  Record i of the provider's ranking; the        *)
(* provider omits the rating of some places.                               *)
(***************************************************************************)
Place(i) ==
    [place_id |-> i, name |-> i, formatted_address |-> i,
     rating |-> IF i % 3 = 0 THEN None ELSE 1 + (i % 5)]

\* the k records the provider serves after `served` records
Batch(served, k) == [j \in 1..k |-> Place(served + j)]

Min(a, b) == IF a <= b THEN a ELSE b

\* Python's seq[:n] for n >= 0
Take(s, n) == SubSeq(s, 1, Min(n, Len(s)))

\* Python's seq[a:b] for 0 <= a, 0 <= b
Slice(s, a, b) == SubSeq(s, a + 1, Min(b, Len(s)))

VARIABLES
    pc,               \* position of the backend's request handler
    endpoint,         \* "find_places" | "find_places_llm" | "get_all_places"
    original_query,   \* request.query
    query,            \* the query search_places is called with
    top_n,
    page,
    max_results,
    all_places,       \* get_all_places: accumulated provider records
    next_page_token,  \* get_all_places: the continuation cursor, None = 0
    requests_made,
    served,           \* provider side: records served so far for this query
    events,           \* every external call and blocking delay, in order
    replies,          \* how each request to the provider ended, in order
    llm_reply,        \* what the LLM answered to preprocess_query_with_llm
    response          \* what the caller of the endpoint sees

backend_vars == <<pc, endpoint, original_query, query, top_n, page, max_results,
                  all_places, next_page_token, requests_made, served, events,
                  replies, llm_reply, response>>

VARIABLES
    app,              \* "cli" (cli_app.py) | "ui" (frontend_app.py) | "none"
    cpc,              \* position of the client within a user turn
    messages,         \* cli: run_conversation's messages; ui: st.session_state.messages
    response_message, \* the message of the first LLM response
    llm_calls,        \* the LLM calls of the current turn: what each was passed
    backend_calls,    \* the POSTs to LOCAL_API_URL of the current turn
    tool_result,      \* cli: function_response_data; ui: what get_llm_decision returned
    turn_outcome,     \* how the last turn ended
    turns             \* user turns started so far

client_vars == <<app, cpc, messages, response_message, llm_calls, backend_calls,
                 tool_result, turn_outcome, turns>>

vars == <<backend_vars, client_vars>>

(***************************************************************************)
(* main_tool.py: response shapes.                                          *)
(***************************************************************************)
NoneStr == "None"

PaginationInfo(current, total, per_page, pages, has_next, has_prev) ==
    [current_page |-> current, total_results |-> total,
     results_per_page |-> per_page, total_pages |-> pages,
     has_next_page |-> has_next, has_prev_page |-> has_prev]

ApiResponse(status, results, pagination) ==
    [status |-> status, results |-> results, pagination |-> pagination,
     original_query |-> NoneStr, processed_query |-> NoneStr]

\* the two URL templates and the PlaceInfo built from a provider record
PlaceInfo(place) ==
    [name |-> place.name, address |-> place.formatted_address,
     rating |-> place.rating, place_id |-> place.place_id,
     maps_embed_url |-> <<"maps/embed/v1/place", "API_KEY", place.place_id>>,
     maps_direction_url |-> <<"maps/dir", place.place_id, place.formatted_address>>]

NoBody == ApiResponse(NoneStr, <<>>, PaginationInfo(0, 0, 0, 0, FALSE, FALSE))

\* the outcome of a block of code: a returned value or a raised exception
Return(value) ==
    [raised |-> FALSE, exc |-> NoneStr, status_code |-> 0, detail |-> NoneStr,
     value |-> value]
Raise(exc, status_code, detail) ==
    [raised |-> TRUE, exc |-> exc, status_code |-> status_code, detail |-> detail,
     value |-> NoBody]

\* exception classes that `except Exception` catches (HTTPException is one)
IsException(exc) == exc \in {"HTTPException", "ApiError", "Exception"}

(***************************************************************************)
(* search_places, lines 154-158: parameter validation.                     *)
(***************************************************************************)
\* lines 155-158, changed: the checks sit inside the try of line 160, so the
\* clause of line 229 turns their HTTPException into a 500
search_places_validate_in_try(t, p) ==
    IF t < 1 \/ t > TopNMax \/ p < 1
    THEN Raise("HTTPException", 500, "An unexpected server error occurred.")
    ELSE Return(NoBody)

search_places_validate(t, p) ==
    IF t < 1 \/ t > TopNMax
    THEN Raise("HTTPException", 400, "top_n must be between 1 and 60")
    ELSE IF p < 1
    THEN Raise("HTTPException", 400, "page must be 1 or greater")
    ELSE Return(NoBody)

(***************************************************************************)
(* search_places, lines 178-182: the pagination arithmetic.                *)
(***************************************************************************)
\* floor instead of ceiling division
total_pages_floor(total_results, t) == total_results \div t
total_pages_of(total_results, t) == (total_results + t - 1) \div t
\* the page's window starts one page late
start_idx_late(p, t) == p * t
start_idx_of(p, t) == (p - 1) * t
\* the window loses its last record
end_idx_short(p, t, total_results) == Min(start_idx_of(p, t) + t - 1, total_results)
end_idx_of(p, t, total_results) == Min(start_idx_of(p, t) + t, total_results)

\* lines 192-209: the records of the page, formatted
formatted_results(places, t, p) ==
    LET page_places == Slice(places, start_idx_of(p, t),
                             end_idx_of(p, t, Len(places)))
    IN [i \in 1..Len(page_places) |-> PlaceInfo(page_places[i])]

\* lines 211-218
pagination_info(total_results, t, p) ==
    PaginationInfo(p, total_results, t, total_pages_of(total_results, t),
                   p < total_pages_of(total_results, t), p > 1)

\* the empty response with has_prev_page computed as for a page of results
zero_results_with_prev(t, p) ==
    ApiResponse("ZERO_RESULTS", <<>>, PaginationInfo(p, 0, t, 0, FALSE, p > 1))
\* lines 165-176: the response for an empty aggregate
zero_results_response(t, p) ==
    ApiResponse("ZERO_RESULTS", <<>>, PaginationInfo(p, 0, t, 0, FALSE, FALSE))

(***************************************************************************)
(* search_places, lines 164-222: the body of the try block, given what     *)
(* get_all_places returned.                                                *)
(***************************************************************************)
search_places_try(places, t, p) ==
    IF places = <<>>
    THEN Return(zero_results_response(t, p))
    ELSE IF start_idx_of(p, t) >= Len(places)
    THEN Raise("HTTPException", 404, "Page not found")
    ELSE Return(ApiResponse("OK", formatted_results(places, t, p),
                            pagination_info(Len(places), t, p)))

(***************************************************************************)
(* search_places, lines 224-233: the except clauses around that block.     *)
(* An HTTPException raised inside the block is an Exception and is caught  *)
(* by the second clause.                                                   *)
(***************************************************************************)
search_places_except(outcome) ==
    IF ~outcome.raised
    THEN outcome
    ELSE IF outcome.exc = "ApiError"
    THEN Raise("HTTPException", 500, "An error occurred with the Google Maps API")
    ELSE IF IsException(outcome.exc)
    THEN Raise("HTTPException", 500, "An unexpected server error occurred.")
    ELSE outcome

\* search_places after validation, given the aggregate
search_places(places, t, p) == search_places_except(search_places_try(places, t, p))

\* find_places_llm, lines 255-259: the queries are attached to a returned result
attach_queries(outcome, original, processed) ==
    IF outcome.raised
    THEN outcome
    ELSE [outcome EXCEPT !.value.original_query = original,
                         !.value.processed_query = processed]

\* what FastAPI sends for an endpoint's outcome
HttpResponse(outcome) ==
    IF outcome.raised
    THEN [status_code |-> outcome.status_code, detail |-> outcome.detail,
          body |-> NoBody]
    ELSE [status_code |-> 200, detail |-> NoneStr, body |-> outcome.value]

NoResponse == [status_code |-> 0, detail |-> NoneStr, body |-> NoBody]

(***************************************************************************)
(* The places provider (gmaps.places): what one request may come back      *)
(* with.  A reply that raises stands for googlemaps.exceptions.ApiError,   *)
(* a transport error or a timeout.                                         *)
(***************************************************************************)
ProviderReply(raises, status, count, token) ==
    [raises |-> raises, status |-> status, count |-> count, token |-> token]

ProviderReplies ==
    {ProviderReply(TRUE, NoneStr, 0, None)}
    \cup {ProviderReply(FALSE, "INVALID_REQUEST", 0, None)}
    \cup {ProviderReply(FALSE, "ZERO_RESULTS", 0, t) : t \in 0..MaxToken}
    \cup {ProviderReply(FALSE, "OK", k, t) : k \in 0..MaxBatch, t \in 0..MaxToken}

\* line 130: the statuses get_all_places goes on with
status_accepted(status) == status \in {"OK", "ZERO_RESULTS"}

\* how a call of gmaps.places (line 122 or 126) ended for get_all_places: with
\* an exception (line 142), with a status line 130 accepts or not, and with
\* the next_page_token line 136 reads (the records go to all_places)
Answer(reply) ==
    [raises |-> reply.raises,
     accepted |-> ~reply.raises /\ status_accepted(reply.status),
     token |-> reply.token]

PlacesEvent(token) == [op |-> "places", page_token |-> token]
SleepEvent == [op |-> "sleep", page_token |-> None]
LlmEvent == [op |-> "llm", page_token |-> None]

(***************************************************************************)
(* get_all_places, line 118: the while condition.                          *)
(***************************************************************************)
\* the loop without the request ceiling
loop_condition_no_ceiling(made, places, max) == Len(places) < max
loop_condition(made, places, max) == made < max_requests /\ Len(places) < max

\* where control is after the condition is evaluated
LoopPc(made, places, max) ==
    IF loop_condition(made, places, max) THEN "loop" ELSE "return"

\* lines 119-126: the delay before a cursor is reused, then the request
\* lines 119-126, changed: the cursor is reused without time.sleep(2)
request_events_no_delay(token) == <<PlacesEvent(token)>>

request_events(token) ==
    IF token # None
    THEN <<SleepEvent, PlacesEvent(token)>>
    ELSE <<PlacesEvent(None)>>

\* line 134, changed: the page replaces the list instead of extending it
accumulate_replace(places, batch) == batch

\* line 134: all_places.extend(places_result["results"])
accumulate(places, batch) == places \o batch

\* line 139, changed: a missing cursor does not end the loop
break_condition_without_cursor(token, places, max) == Len(places) >= max

\* line 139: the break after a successful page
break_condition(token, places, max) == token = None \/ Len(places) >= max

(***************************************************************************)
(* get_all_places, lines 112-115: the locals at entry.                     *)
(***************************************************************************)
get_all_places_enter(max) ==
    /\ max_results' = max
    /\ all_places' = <<>>
    /\ next_page_token' = None
    /\ requests_made' = 0
    /\ served' = 0
    /\ pc' = LoopPc(0, <<>>, max)

(***************************************************************************)
(* search_places, lines 148-162: validation, then get_all_places is        *)
(* entered; a rejected request is answered at once.                        *)
(***************************************************************************)
search_places_enter(t, p) ==
    LET checked == search_places_validate(t, p)
    IN IF checked.raised
       THEN /\ response' = HttpResponse(checked)
            /\ pc' = "done"
            /\ UNCHANGED <<max_results, all_places, next_page_token,
                           requests_made, served>>
       ELSE /\ get_all_places_enter(SearchMaxResults)
            /\ UNCHANGED response

(***************************************************************************)
(* POST /find-places, lines 237-243.                                       *)
(***************************************************************************)
find_places ==
    /\ pc = "idle"
    /\ \E t \in TopNValues, p \in PageValues :
          /\ endpoint' = "find_places"
          /\ original_query' = RawQuery
          /\ query' = RawQuery
          /\ top_n' = t
          /\ page' = p
          /\ search_places_enter(t, p)
    /\ UNCHANGED <<events, replies, llm_reply>>
    /\ UNCHANGED client_vars

(***************************************************************************)
(* preprocess_query_with_llm, lines 86-104: the LLM answers with a         *)
(* rewritten query, or the call fails and the raw query is the fallback.   *)
(***************************************************************************)
LlmRewrites == {[failed |-> TRUE, content |-> NoneStr]}
               \cup {[failed |-> FALSE, content |-> c] : c \in RewrittenQueries}

\* no call of the LLM was made by the request
NoLlmReply == [failed |-> FALSE, content |-> NoneStr]

\* lines 91-99, changed: a second attempt follows the first LLM call
preprocess_events_retried == <<LlmEvent, LlmEvent>>

\* lines 91-99: the one LLM call of preprocess_query_with_llm
preprocess_events == <<LlmEvent>>

\* lines 101-104, changed: the fallback gives an empty query
preprocess_query_empty_fallback(user_query, reply) ==
    IF reply.failed THEN "" ELSE reply.content

preprocess_query_with_llm(user_query, reply) ==
    IF reply.failed THEN user_query ELSE reply.content

(***************************************************************************)
(* POST /find-places-llm, lines 246-259 (the part before get_all_places).  *)
(***************************************************************************)
find_places_llm ==
    /\ pc = "idle"
    /\ \E t \in TopNValues, p \in PageValues, reply \in LlmRewrites :
          /\ endpoint' = "find_places_llm"
          /\ original_query' = RawQuery
          /\ events' = events \o preprocess_events
          /\ llm_reply' = reply
          /\ query' = preprocess_query_with_llm(RawQuery, reply)
          /\ top_n' = t
          /\ page' = p
          /\ search_places_enter(t, p)
    /\ UNCHANGED replies
    /\ UNCHANGED client_vars

(***************************************************************************)
(* A direct call get_all_places(query, max_results), lines 107-115.        *)
(***************************************************************************)
call_get_all_places ==
    /\ pc = "idle"
    /\ \E m \in MaxResultsValues :
          /\ endpoint' = "get_all_places"
          /\ get_all_places_enter(m)
    /\ original_query' = RawQuery
    /\ query' = RawQuery
    /\ UNCHANGED <<top_n, page, events, replies, llm_reply, response>>
    /\ UNCHANGED client_vars

(***************************************************************************)
(* get_all_places, lines 118-143: one iteration of the while loop.         *)
(***************************************************************************)
get_all_places_iteration ==
    /\ pc = "loop"
    /\ \E reply \in ProviderReplies :
          /\ events' = events \o request_events(next_page_token)
          /\ replies' = Append(replies, Answer(reply))
          /\ IF reply.raises
             THEN \* line 142: the exception leaves the loop
                  /\ pc' = "return"
                  /\ UNCHANGED <<all_places, next_page_token, requests_made, served>>
             ELSE IF ~status_accepted(reply.status)
             THEN \* lines 130-131
                  /\ requests_made' = requests_made + 1
                  /\ pc' = "return"
                  /\ UNCHANGED <<all_places, next_page_token, served>>
             ELSE LET places == accumulate(all_places, Batch(served, reply.count))
                  IN /\ requests_made' = requests_made + 1
                     /\ all_places' = places
                     /\ served' = served + reply.count
                     /\ next_page_token' = reply.token
                     /\ pc' = IF break_condition(reply.token, places, max_results)
                              THEN "return"
                              ELSE LoopPc(requests_made + 1, places, max_results)
    /\ UNCHANGED <<endpoint, original_query, query, top_n, page, max_results,
                   llm_reply, response>>
    /\ UNCHANGED client_vars

(***************************************************************************)
(* get_all_places, line 145, returning to a direct caller.                 *)
(***************************************************************************)
get_all_places_return ==
    /\ pc = "return"
    /\ endpoint = "get_all_places"
    /\ all_places' = Take(all_places, max_results)
    /\ pc' = "done"
    /\ UNCHANGED <<endpoint, original_query, query, top_n, page, max_results,
                   next_page_token, requests_made, served, events, replies,
                   llm_reply, response>>
    /\ UNCHANGED client_vars

(***************************************************************************)
(* get_all_places, line 145, returning into search_places, lines 164-233,  *)
(* and the endpoint's answer (lines 243, 255-259).                         *)
(***************************************************************************)
search_places_respond ==
    /\ pc = "return"
    /\ endpoint \in {"find_places", "find_places_llm"}
    /\ LET places == Take(all_places, max_results)
           outcome == search_places(places, top_n, page)
       IN /\ all_places' = places
          /\ response' = HttpResponse(
                 IF endpoint = "find_places_llm"
                 THEN attach_queries(outcome, original_query, query)
                 ELSE outcome)
    /\ pc' = "done"
    /\ UNCHANGED <<endpoint, original_query, query, top_n, page, max_results,
                   next_page_token, requests_made, served, events, replies,
                   llm_reply>>
    /\ UNCHANGED client_vars

BackendInit ==
    /\ pc = "idle"
    /\ endpoint = NoneStr
    /\ original_query = NoneStr
    /\ query = NoneStr
    /\ top_n = DefaultTopN
    /\ page = DefaultPage
    /\ max_results = SearchMaxResults
    /\ all_places = <<>>
    /\ next_page_token = None
    /\ requests_made = 0
    /\ served = 0
    /\ events = <<>>
    /\ replies = <<>>
    /\ llm_reply = NoLlmReply
    /\ response = NoResponse

(***************************************************************************)
(* Python values the clients handle: None, a str, a dict (the JSON object  *)
(* of a backend answer or an error payload), and the str json.dumps makes  *)
(* of a dict.                                                              *)
(***************************************************************************)
NoPayload ==
    [keys |-> {}, status |-> NoneStr, results |-> <<>>, detail |-> NoneStr,
     pagination |-> NoBody.pagination]

PyNone == [kind |-> "None", text |-> NoneStr, data |-> NoPayload]
PyStr(text) == [kind |-> "str", text |-> text, data |-> NoPayload]
PyDict(d) == [kind |-> "dict", text |-> NoneStr, data |-> d]
json_dumps(d) == [kind |-> "json", text |-> NoneStr, data |-> d]

\* dict.get(key, default) for the keys the clients read
DictGet(d, key, default) == IF key \in d.keys THEN d[key] ELSE default

(***************************************************************************)
(* Messages of a conversation.                                             *)
(***************************************************************************)
Message(role, content, tool_call_id, name, tool_calls) ==
    [role |-> role, content |-> content, tool_call_id |-> tool_call_id,
     name |-> name, tool_calls |-> tool_calls]

NoMessage == Message(NoneStr, PyNone, None, NoneStr, <<>>)
SystemMessage == Message("system", PyStr("SYSTEM_PROMPT"), None, NoneStr, <<>>)
UserMessage(text) == Message("user", PyStr(text), None, NoneStr, <<>>)
AssistantMessage(content, tool_calls) ==
    Message("assistant", content, None, NoneStr, tool_calls)

\* cli_app.py lines 92-101: the tool-result message
ToolMessage(tool_call_id, name, data) ==
    Message("tool", json_dumps(data), tool_call_id, name, <<>>)

(***************************************************************************)
(* Bounds and inputs of the clients.                                       *)
(***************************************************************************)
\* user turns of one run
MaxTurns == 2
\* tool-call requests in one LLM response
MaxToolCalls == 2
\* records in a backend answer to a client
MaxClientResults == 2

UserPrompts == {"find sushi in NYC"}
ToolName == "find_places_on_map"
FunctionNames == {ToolName, "get_weather"}

\* the arguments strings the LLM may emit
ArgsQuery == "{\"query\": \"sushi NYC\"}"
ArgsNoQuery == "{}"
ArgsNotObject == "[\"sushi NYC\"]"
ArgsTruncated == "{\"query\": \"sushi"
ArgStrings == {ArgsQuery, ArgsNoQuery, ArgsNotObject, ArgsTruncated}

(***************************************************************************)
(* json.loads on the arguments strings: the parsed value, or a             *)
(* JSONDecodeError; and function_args.get("query") on the parsed value     *)
(* (cli_app.py 76-77, frontend_app.py 80-81).                              *)
(***************************************************************************)
json_loads(text) ==
    CASE text = ArgsQuery -> [raised |-> FALSE, exc |-> NoneStr, type |-> "dict",
                              keys |-> {"query"}, query |-> "sushi NYC"]
      [] text = ArgsNoQuery -> [raised |-> FALSE, exc |-> NoneStr, type |-> "dict",
                                keys |-> {}, query |-> NoneStr]
      [] text = ArgsNotObject -> [raised |-> FALSE, exc |-> NoneStr, type |-> "list",
                                  keys |-> {}, query |-> NoneStr]
      [] OTHER -> [raised |-> TRUE, exc |-> "JSONDecodeError", type |-> NoneStr,
                   keys |-> {}, query |-> NoneStr]

\* the query extracted from the arguments, or the exception the two lines raise
parse_arguments(text) ==
    LET parsed == json_loads(text)
    IN IF parsed.raised
       THEN [raised |-> TRUE, exc |-> parsed.exc, query |-> NoneStr]
       ELSE IF parsed.type # "dict"
       THEN [raised |-> TRUE, exc |-> "AttributeError", query |-> NoneStr]
       ELSE [raised |-> FALSE, exc |-> NoneStr,
             query |-> IF "query" \in parsed.keys THEN parsed.query ELSE NoneStr]

(***************************************************************************)
(* The LLM (client.chat.completions.create).                               *)
(***************************************************************************)
ToolCall(id, name, arguments) ==
    [id |-> id, function |-> [name |-> name, arguments |-> arguments]]

\* the tool-call lists of an LLM response: call i has id i
ToolCallLists ==
    UNION {[1..k -> FunctionNames \X ArgStrings] : k \in 1..MaxToolCalls}

ToolCallsOf(choice) ==
    [i \in DOMAIN choice |-> ToolCall(i, choice[i][1], choice[i][2])]

LlmReply(raises, content, tool_calls) ==
    [raises |-> raises, content |-> content, tool_calls |-> tool_calls]

\* what the first call (with the tool declared) may come back with
FirstLlmReplies ==
    {LlmReply(TRUE, PyNone, <<>>)}
    \cup {LlmReply(FALSE, c, <<>>) : c \in {PyStr("Hello! How can I help?"), PyNone}}
    \cup {LlmReply(FALSE, PyNone, ToolCallsOf(choice)) : choice \in ToolCallLists}

\* what the second call (no tools) may come back with
SecondLlmReplies ==
    {LlmReply(TRUE, PyNone, <<>>),
     LlmReply(FALSE, PyStr("Here are some sushi places."), <<>>)}

\* an LLM call: the history and tool declaration it was passed, and its reply
LlmCall(history, with_tools, reply) ==
    [messages |-> history, tools |-> with_tools, reply |-> reply]

(***************************************************************************)
(* The backend as a client sees it: requests.post(LOCAL_API_URL,           *)
(* json={"query": query}) ends in a transport error or in an HTTP answer.  *)
(* The request carries no top_n and no page, so the backend applies its    *)
(* defaults; a null query fails PlaceRequest's validation (422).           *)
(***************************************************************************)
TransportError == [status_code |-> 0, detail |-> "ConnectionError", body |-> NoBody]
HttpError(code) == [status_code |-> code, detail |-> "error", body |-> NoBody]

BackendReplies(q) ==
    IF q = NoneStr
    THEN {TransportError, HttpError(422)}
    ELSE {TransportError, HttpError(500)}
         \cup {HttpResponse(search_places(Batch(0, k), DefaultTopN, DefaultPage)) :
                 k \in 0..MaxClientResults}

\* api_response.json(): the JSON object of an ApiResponse
response_json(reply) ==
    [keys |-> {"status", "results", "pagination", "original_query", "processed_query"},
     status |-> reply.body.status, results |-> reply.body.results,
     detail |-> NoneStr, pagination |-> reply.body.pagination]

\* raise_for_status() and the transport: does the POST raise a RequestException
post_raises(reply) == reply.status_code = 0 \/ reply.status_code >= 400

BackendCall(q, reply) == [query |-> q, reply |-> reply]

(***************************************************************************)
(* How a user turn ended: what was printed (cli) or returned by            *)
(* get_llm_decision (ui), or the exception that left run_conversation.     *)
(***************************************************************************)
Outcome(kind, value, exc) == [kind |-> kind, value |-> value, exc |-> exc]
NoOutcome == Outcome(NoneStr, PyNone, NoneStr)

\* cli_app.py 66, frontend_app.py 77: `if tool_calls:`
wants_tool(msg) == Len(msg.tool_calls) > 0

\* the answer of a turn without tool call is replaced by a fixed text
chat_answer_canned(msg) == PyStr("I can only search for places.")
\* cli_app.py 114, frontend_app.py 96: the answer of a turn without tool call
chat_answer(msg) == msg.content

\* cli_app.py 71, frontend_app.py 79, changed: the last tool call is taken
honored_call_last(tool_calls) == tool_calls[Len(tool_calls)]

\* cli_app.py 71, frontend_app.py 79: tool_call = tool_calls[0]
honored_call(tool_calls) == tool_calls[1]

\* cli_app.py 126-127, changed: the exception is not caught and ends the process
cli_after_exception_exits == "exited"

\* cli_app.py 126-127: an exception out of run_conversation is printed and the
\* loop calls run_conversation again, which waits for input
cli_after_exception == "prompt"

\* cli_app.py 87: the payload when the POST raised
cli_error_payload ==
    [NoPayload EXCEPT !.keys = {"status", "results"}, !.status = "ERROR",
                      !.results = <<>>]

\* frontend_app.py 90-93: the dict returned when the POST raised
ui_error_payload ==
    [NoPayload EXCEPT !.keys = {"status", "detail"}, !.status = "ERROR",
                      !.detail = "Could not connect to the mapping service"]

\* the POST's failure is not caught: the answer is decoded whatever the status
cli_post_unchecked(reply) == response_json(reply)
\* cli_app.py 80-87: function_response_data
cli_post(reply) ==
    IF post_raises(reply) THEN cli_error_payload ELSE response_json(reply)

\* frontend_app.py 87, changed: only status and results of the answer are kept
ui_post_without_pagination(reply) ==
    IF post_raises(reply)
    THEN ui_error_payload
    ELSE [response_json(reply) EXCEPT !.keys = {"status", "results"},
                                      !.pagination = NoPayload.pagination]

\* frontend_app.py 84-93
ui_post(reply) ==
    IF post_raises(reply) THEN ui_error_payload ELSE response_json(reply)

\* frontend_app.py 98-99: what get_llm_decision returns for any exception
ui_error_text == PyStr("An error occurred with the AI model")

\* frontend_app.py 127-130: the role and content of every stored message
full_conversation(history) ==
    [i \in 1..Len(history) |->
        Message(history[i].role, history[i].content, None, NoneStr, <<>>)]

\* frontend_app.py 149-169: the text stored for an OK answer
response_for_history(results) ==
    [kind |-> "str", text |-> "Berikut adalah beberapa pilihan yang saya temukan:",
     data |-> [NoPayload EXCEPT !.results =
                 [i \in 1..Len(results) |->
                    [name |-> results[i].name, address |-> results[i].address,
                     rating |-> results[i].rating,
                     maps_direction_url |-> results[i].maps_direction_url]]]]

(***************************************************************************)
(* cli_app.py 50-51, 120-122: the loop calls run_conversation, which reads *)
(* the user's message and starts a new message list.                       *)
(***************************************************************************)
cli_input ==
    /\ app = "cli"
    /\ cpc = "prompt"
    /\ turns < MaxTurns
    /\ \E text \in UserPrompts : messages' = <<UserMessage(text)>>
    /\ response_message' = NoMessage
    /\ llm_calls' = <<>>
    /\ backend_calls' = <<>>
    /\ tool_result' = PyNone
    /\ turn_outcome' = NoOutcome
    /\ turns' = turns + 1
    /\ cpc' = "llm1"
    /\ UNCHANGED app
    /\ UNCHANGED backend_vars

(***************************************************************************)
(* cli_app.py 123-125: KeyboardInterrupt at the prompt ends the loop.      *)
(***************************************************************************)
cli_interrupt ==
    /\ app = "cli"
    /\ cpc = "prompt"
    /\ cpc' = "exited"
    /\ UNCHANGED <<app, messages, response_message, llm_calls, backend_calls,
                   tool_result, turn_outcome, turns>>
    /\ UNCHANGED backend_vars

(***************************************************************************)
(* cli_app.py 55-74 and 111-114: the first LLM call and the branch on its  *)
(* response.  An exception leaves run_conversation and is caught by the    *)
(* loop (126-127).                                                         *)
(***************************************************************************)
cli_first_llm_call ==
    /\ app = "cli"
    /\ cpc = "llm1"
    /\ \E reply \in FirstLlmReplies :
          /\ llm_calls' = Append(llm_calls, LlmCall(messages, TRUE, reply))
          /\ IF reply.raises
             THEN /\ turn_outcome' = Outcome("raised", PyNone, "APIError")
                  /\ cpc' = cli_after_exception
                  /\ UNCHANGED response_message
             ELSE LET msg == AssistantMessage(reply.content, reply.tool_calls)
                  IN /\ response_message' = msg
                     /\ IF ~wants_tool(msg)
                        THEN /\ turn_outcome' = Outcome("printed", chat_answer(msg), NoneStr)
                             /\ cpc' = "prompt"
                        ELSE IF honored_call(msg.tool_calls).function.name # ToolName
                        THEN \* line 74 is false: the function returns, nothing printed
                             /\ turn_outcome' = Outcome("silent", PyNone, NoneStr)
                             /\ cpc' = "prompt"
                        ELSE /\ cpc' = "tool"
                             /\ UNCHANGED turn_outcome
    /\ UNCHANGED <<app, messages, backend_calls, tool_result, turns>>
    /\ UNCHANGED backend_vars

(***************************************************************************)
(* cli_app.py 71-101: the arguments are parsed, the backend is called and  *)
(* the assistant message and the tool-result message are appended.         *)
(***************************************************************************)
cli_tool_step ==
    /\ app = "cli"
    /\ cpc = "tool"
    /\ LET tool_call == honored_call(response_message.tool_calls)
           args == parse_arguments(tool_call.function.arguments)
       IN IF args.raised
          THEN \* lines 76-77 are outside the try block
               /\ turn_outcome' = Outcome("raised", PyNone, args.exc)
               /\ cpc' = cli_after_exception
               /\ UNCHANGED <<messages, backend_calls, tool_result>>
          ELSE \E reply \in BackendReplies(args.query) :
                  LET data == cli_post(reply)
                  IN /\ backend_calls' =
                           Append(backend_calls, BackendCall(args.query, reply))
                     /\ tool_result' = PyDict(data)
                     /\ messages' = messages \o
                           <<response_message,
                             ToolMessage(tool_call.id, tool_call.function.name, data)>>
                     /\ cpc' = "llm2"
                     /\ UNCHANGED turn_outcome
    /\ UNCHANGED <<app, response_message, llm_calls, turns>>
    /\ UNCHANGED backend_vars

(***************************************************************************)
(* cli_app.py 105-110: the second LLM call, without tools.                 *)
(***************************************************************************)
cli_second_llm_call ==
    /\ app = "cli"
    /\ cpc = "llm2"
    /\ \E reply \in SecondLlmReplies :
          /\ llm_calls' = Append(llm_calls, LlmCall(messages, FALSE, reply))
          /\ turn_outcome' = IF reply.raises
                             THEN Outcome("raised", PyNone, "APIError")
                             ELSE Outcome("printed", reply.content, NoneStr)
          /\ cpc' = IF reply.raises THEN cli_after_exception ELSE "prompt"
    /\ UNCHANGED <<app, messages, response_message, backend_calls, tool_result, turns>>
    /\ UNCHANGED backend_vars

(***************************************************************************)
(* frontend_app.py 120-123: the user's message is stored.                  *)
(***************************************************************************)
ui_chat_input ==
    /\ app = "ui"
    /\ cpc = "prompt"
    /\ turns < MaxTurns
    /\ \E text \in UserPrompts : messages' = Append(messages, UserMessage(text))
    /\ response_message' = NoMessage
    /\ llm_calls' = <<>>
    /\ backend_calls' = <<>>
    /\ tool_result' = PyNone
    /\ turn_outcome' = NoOutcome
    /\ turns' = turns + 1
    /\ cpc' = "llm1"
    /\ UNCHANGED app
    /\ UNCHANGED backend_vars

(***************************************************************************)
(* frontend_app.py 127-133 and get_llm_decision 67-77, 94-99: the LLM call *)
(* and the branch on its response.                                         *)
(***************************************************************************)
ui_first_llm_call ==
    /\ app = "ui"
    /\ cpc = "llm1"
    /\ \E reply \in FirstLlmReplies :
          /\ llm_calls' = Append(llm_calls,
                                 LlmCall(full_conversation(messages), TRUE, reply))
          /\ IF reply.raises
             THEN /\ turn_outcome' = Outcome("returned", ui_error_text, NoneStr)
                  /\ cpc' = "render"
                  /\ UNCHANGED response_message
             ELSE LET msg == AssistantMessage(reply.content, reply.tool_calls)
                  IN /\ response_message' = msg
                     /\ IF ~wants_tool(msg)
                        THEN /\ turn_outcome' = Outcome("returned", chat_answer(msg), NoneStr)
                             /\ cpc' = "render"
                        ELSE /\ cpc' = "tool"
                             /\ UNCHANGED turn_outcome
    /\ UNCHANGED <<app, messages, backend_calls, tool_result, turns>>
    /\ UNCHANGED backend_vars

(***************************************************************************)
(* get_llm_decision 79-93, 98-99: the arguments are parsed and the backend *)
(* is called; any exception of the parse becomes the error text.           *)
(***************************************************************************)
ui_tool_step ==
    /\ app = "ui"
    /\ cpc = "tool"
    /\ LET tool_call == honored_call(response_message.tool_calls)
           args == parse_arguments(tool_call.function.arguments)
       IN IF args.raised
          THEN /\ turn_outcome' = Outcome("returned", ui_error_text, NoneStr)
               /\ UNCHANGED <<backend_calls, tool_result>>
          ELSE \E reply \in BackendReplies(args.query) :
                  /\ backend_calls' =
                        Append(backend_calls, BackendCall(args.query, reply))
                  /\ tool_result' = PyDict(ui_post(reply))
                  /\ turn_outcome' = Outcome("returned", PyDict(ui_post(reply)), NoneStr)
    /\ cpc' = "render"
    /\ UNCHANGED <<app, messages, response_message, llm_calls, turns>>
    /\ UNCHANGED backend_vars

(***************************************************************************)
(* frontend_app.py 136-182: the returned value is rendered and stored.     *)
(***************************************************************************)
ui_render ==
    /\ app = "ui"
    /\ cpc = "render"
    /\ LET response_data == turn_outcome.value
       IN messages' =
            IF response_data.kind = "str"
            THEN Append(messages, AssistantMessage(response_data, <<>>))
            ELSE IF response_data.kind = "dict"
            THEN IF DictGet(response_data.data, "status", NoneStr) = "OK"
                 THEN Append(messages, AssistantMessage(
                        response_for_history(
                            DictGet(response_data.data, "results", <<>>)), <<>>))
                 ELSE Append(messages, AssistantMessage(
                        PyStr(DictGet(response_data.data, "detail",
                                      "Tidak ada hasil yang ditemukan.")), <<>>))
            ELSE messages
    /\ cpc' = "prompt"
    /\ UNCHANGED <<app, response_message, llm_calls, backend_calls, tool_result,
                   turn_outcome, turns>>
    /\ UNCHANGED backend_vars

\* the client before its first turn; the backend specification keeps it so
ClientIdle ==
    /\ app = "none"
    /\ cpc = "prompt"
    /\ messages = <<>>
    /\ response_message = NoMessage
    /\ llm_calls = <<>>
    /\ backend_calls = <<>>
    /\ tool_result = PyNone
    /\ turn_outcome = NoOutcome
    /\ turns = 0

\* cli_app.py 118-120; frontend_app.py 109-110
ClientInit ==
    /\ app \in {"cli", "ui"}
    /\ cpc = "prompt"
    /\ messages = IF app = "ui" THEN <<SystemMessage>> ELSE <<>>
    /\ response_message = NoMessage
    /\ llm_calls = <<>>
    /\ backend_calls = <<>>
    /\ tool_result = PyNone
    /\ turn_outcome = NoOutcome
    /\ turns = 0

(***************************************************************************)
(* Spec: one request to the backend.                                       *)
(***************************************************************************)
Next ==
    \/ find_places
    \/ find_places_llm
    \/ call_get_all_places
    \/ get_all_places_iteration
    \/ get_all_places_return
    \/ search_places_respond

Init == BackendInit /\ ClientIdle

Spec == Init /\ [][Next]_vars

(***************************************************************************)
(* SpecClient: the conversation of the CLI client or of the chat UI.       *)
(***************************************************************************)
ClientNext ==
    \/ cli_input
    \/ cli_interrupt
    \/ cli_first_llm_call
    \/ cli_tool_step
    \/ cli_second_llm_call
    \/ ui_chat_input
    \/ ui_first_llm_call
    \/ ui_tool_step
    \/ ui_render

InitClient == BackendInit /\ ClientInit

SpecClient == InitClient /\ [][ClientNext]_vars

(***************************************************************************)
(* Vocabulary of the properties.                                           *)
(***************************************************************************)
\* the handler of a search endpoint has answered a request that passed validation
SearchAnswered ==
    /\ pc = "done"
    /\ endpoint \in {"find_places", "find_places_llm"}
    /\ top_n \in 1..TopNMax
    /\ page >= 1

\* the endpoint returned a SearchResponse (HTTP 200)
SearchReturned == SearchAnswered /\ response.status_code = 200

\* the provider requests issued so far
PlacesRequests == SelectSeq(events, LAMBDA e : e.op = "places")

\* ceil(a / b) for b > 0, by its definition: the least n with n * b >= a
Ceil(a, b) == CHOOSE n \in 0..a : n * b >= a /\ \A m \in 0..(n - 1) : m * b < a

AllZeroPagination == PaginationInfo(0, 0, 0, 0, FALSE, FALSE)

\* the first LLM call of the current turn came back with a response
FirstResponded == turns > 0 /\ response_message.role = "assistant"

\* the current turn is over: run_conversation (cli) or get_llm_decision (ui)
\* has returned or raised
TurnEnded == turns > 0 /\ cpc \in {"prompt", "render", "exited"}

\* the first response carries a tool call that the client acts on: the cli
\* acts on tool_calls[0] only when it names the declared tool
HonoredToolCall ==
    /\ FirstResponded
    /\ Len(response_message.tool_calls) > 0
    /\ app = "cli" => response_message.tool_calls[1].function.name = ToolName

\* the POST of the current turn failed: a transport error or a status outside 2xx
DispatchFailed ==
    /\ turns > 0
    /\ Len(backend_calls) > 0
    /\ backend_calls[1].reply.status_code \notin 200..299

\* positions of the assistant tool-call messages and of the tool messages
ToolCallMessages(history) ==
    {i \in 1..Len(history) :
        history[i].role = "assistant" /\ Len(history[i].tool_calls) > 0}
ToolResultMessages(history) == {i \in 1..Len(history) : history[i].role = "tool"}

(***************************************************************************)
(* C1.  In the CLI, whenever the first LLM response carries a tool-call    *)
(* request (for the declared tool), the turn makes exactly two LLM calls   *)
(* and the history passed to the second holds exactly one assistant        *)
(* tool-call message, followed by exactly one tool-result message whose    *)
(* tool_call_id is the id of the honored call.                             *)
(***************************************************************************)
C1_ToolCallTurnMakesTwoLlmCalls ==
    (app = "cli" /\ TurnEnded /\ HonoredToolCall)
    => /\ Len(llm_calls) = 2
       /\ LET history == llm_calls[2].messages
          IN /\ Cardinality(ToolCallMessages(history)) = 1
             /\ Cardinality(ToolResultMessages(history)) = 1
             /\ \A i \in ToolCallMessages(history) :
                   /\ i + 1 \in ToolResultMessages(history)
                   /\ history[i + 1].tool_call_id = response_message.tool_calls[1].id

(***************************************************************************)
(* C2.  When the first LLM response carries no tool-call request, the      *)
(* turn's answer is that response's content unchanged (printed by the CLI, *)
(* returned by get_llm_decision), the turn makes exactly one LLM call and  *)
(* no call to the backend.                                                 *)
(***************************************************************************)
C2_NoToolCallSingleRoundTrip ==
    (TurnEnded /\ FirstResponded /\ Len(response_message.tool_calls) = 0)
    => /\ Len(llm_calls) = 1
       /\ Len(backend_calls) = 0
       /\ turn_outcome.kind = (IF app = "cli" THEN "printed" ELSE "returned")
       /\ turn_outcome.value = llm_calls[1].reply.content

\* the chat UI, second turn, answered by text alone and stored in the history
C2_Witness ==
    /\ app = "ui"
    /\ cpc = "prompt"
    /\ turns = 2
    /\ FirstResponded
    /\ Len(response_message.tool_calls) = 0
    /\ turn_outcome.value = PyStr("Hello! How can I help?")
    /\ Len(llm_calls) = 1

(***************************************************************************)
(* C3.  When the arguments of the honored tool call are not valid JSON,    *)
(* the orchestrator does not raise to its caller and the result of the     *)
(* tool step is a structured payload with status ERROR, in the CLI and in  *)
(* the chat UI.                                                            *)
(***************************************************************************)
C3_MalformedArgumentsGiveErrorPayload ==
    (TurnEnded /\ HonoredToolCall
        /\ response_message.tool_calls[1].function.arguments = ArgsTruncated)
    => /\ turn_outcome.kind # "raised"
       /\ tool_result.kind = "dict"
       /\ tool_result.data.status = "ERROR"

(***************************************************************************)
(* C4 as stated.  When the POST to the backend fails, the orchestrator     *)
(* does not raise; the payload has status ERROR, an empty results list and *)
(* a human-readable detail; in the CLI the tool-result message carrying it *)
(* is appended and the second LLM call is made.                            *)
(***************************************************************************)
C4_DispatchFailurePayloadComplete ==
    DispatchFailed
    => /\ tool_result.kind = "dict"
       /\ tool_result.data.status = "ERROR"
       /\ "results" \in tool_result.data.keys
       /\ tool_result.data.results = <<>>
       /\ "detail" \in tool_result.data.keys
       /\ tool_result.data.detail # NoneStr

(***************************************************************************)
(* C4 as amended.  When the POST to the backend fails (transport error or  *)
(* error status), the orchestrator does not raise and produces a payload   *)
(* with status ERROR: in the CLI {status, results} with an empty results   *)
(* list and no detail, in the chat UI {status, detail} with a              *)
(* human-readable detail and no results list.  The turn still completes:   *)
(* in the CLI the tool-result message carrying the payload is appended     *)
(* after the assistant message and the second LLM call is made with that   *)
(* history; in the chat UI the payload is what get_llm_decision returns.   *)
(***************************************************************************)
C4_DispatchFailureGivesErrorPayload ==
    DispatchFailed
    => /\ tool_result.kind = "dict"
       /\ tool_result.data.status = "ERROR"
       /\ app = "cli" =>
            /\ tool_result.data.keys = {"status", "results"}
            /\ tool_result.data.results = <<>>
            /\ messages[Len(messages) - 1] = response_message
            /\ messages[Len(messages)].role = "tool"
            /\ messages[Len(messages)].content = json_dumps(tool_result.data)
            /\ messages[Len(messages)].tool_call_id = response_message.tool_calls[1].id
            /\ turn_outcome.kind = "raised" => Len(llm_calls) = 2
            /\ TurnEnded => /\ Len(llm_calls) = 2
                            /\ llm_calls[2].messages = messages
                            /\ ~llm_calls[2].tools
       /\ app = "ui" =>
            /\ tool_result.data.keys = {"status", "detail"}
            /\ tool_result.data.detail # NoneStr
            /\ turn_outcome = Outcome("returned", tool_result, NoneStr)
            /\ Len(llm_calls) = 1

\* the CLI: the backend was unreachable, and the second LLM call answered
C4_Witness ==
    /\ app = "cli"
    /\ TurnEnded
    /\ DispatchFailed
    /\ backend_calls[1].reply = TransportError
    /\ Len(llm_calls) = 2
    /\ turn_outcome.kind = "printed"

(***************************************************************************)
(* C5.  A request whose page lies beyond the last page of a non-empty      *)
(* aggregate (start index (page-1)*top_n >= total_results) is answered     *)
(* with 404 NotFound, as seen by the caller of the endpoint.  (The empty   *)
(* aggregate is the case of C6.)                                           *)
(***************************************************************************)
C5_PageBeyondLastIsNotFound ==
    (SearchAnswered /\ Len(all_places) > 0
        /\ (page - 1) * top_n >= Len(all_places))
    => response.status_code = 404

(***************************************************************************)
(* C6 as stated.  An empty aggregate is answered with ZERO_RESULTS, no     *)
(* results and a PaginationInfo whose every field is zero or false.        *)
(***************************************************************************)
C6_EmptyAggregateAllZero ==
    (SearchAnswered /\ Len(all_places) = 0)
    => /\ response.status_code = 200
       /\ response.body.status = "ZERO_RESULTS"
       /\ response.body.results = <<>>
       /\ response.body.pagination = AllZeroPagination

(***************************************************************************)
(* C6 as amended.  An empty aggregate is answered, for every valid top_n   *)
(* and page, with HTTP 200, status ZERO_RESULTS, no results and a          *)
(* PaginationInfo with total_results = 0, total_pages = 0, has_next_page   *)
(* and has_prev_page false, while current_page echoes the requested page   *)
(* and results_per_page the requested top_n.                               *)
(***************************************************************************)
C6_EmptyAggregateZeroResults ==
    (SearchAnswered /\ Len(all_places) = 0)
    => /\ response.status_code = 200
       /\ response.body.status = "ZERO_RESULTS"
       /\ response.body.results = <<>>
       /\ response.body.pagination.total_results = 0
       /\ response.body.pagination.total_pages = 0
       /\ response.body.pagination.has_next_page = FALSE
       /\ response.body.pagination.has_prev_page = FALSE
       /\ response.body.pagination.current_page = page
       /\ response.body.pagination.results_per_page = top_n

\* an empty aggregate was answered for a page after the first, after the
\* provider was asked
C6_Witness ==
    /\ SearchAnswered
    /\ Len(all_places) = 0
    /\ Len(PlacesRequests) >= 1
    /\ page = 2
    /\ top_n = 5
    /\ response.body.status = "ZERO_RESULTS"

(***************************************************************************)
(* C7 as stated.  Every response search_places returns has                 *)
(* total_pages = ceil(T / top_n), has_next_page <=> page < total_pages,    *)
(* has_prev_page <=> page > 1, total_results = T, results_per_page = top_n.*)
(***************************************************************************)
C7_PaginationDerived ==
    SearchReturned
    => LET pg == response.body.pagination
           T == Len(all_places)
       IN /\ pg.total_pages = Ceil(T, top_n)
          /\ pg.has_next_page = (page < pg.total_pages)
          /\ pg.has_prev_page = (page > 1)
          /\ pg.total_results = T
          /\ pg.results_per_page = top_n

(***************************************************************************)
(* C7 as amended.  As C7, except that has_prev_page is true exactly when   *)
(* page > 1 and the aggregate is not empty (T > 0).                        *)
(***************************************************************************)
C7_PaginationDerivedNonEmptyPrev ==
    SearchReturned
    => LET pg == response.body.pagination
           T == Len(all_places)
       IN /\ pg.total_pages = Ceil(T, top_n)
          /\ pg.has_next_page = (page < pg.total_pages)
          /\ pg.has_prev_page = (page > 1 /\ T > 0)
          /\ pg.total_results = T
          /\ pg.results_per_page = top_n

\* a middle page of an aggregate whose last page is partial
C7_Witness ==
    /\ SearchReturned
    /\ Len(all_places) = 7
    /\ top_n = 3
    /\ page = 2
    /\ response.body.pagination.total_pages = 3
    /\ response.body.pagination.has_next_page
    /\ response.body.pagination.has_prev_page

(***************************************************************************)
(* C8.  For an in-range page the returned results are exactly the          *)
(* aggregate records at indices (page-1)*top_n up to but excluding         *)
(* min(page*top_n, total_results) (0-based), in aggregate order.           *)
(***************************************************************************)
C8_PageIsTheWindow ==
    (SearchReturned /\ (page - 1) * top_n < Len(all_places))
    => LET first == (page - 1) * top_n
           last == Min(page * top_n, Len(all_places))
           res == response.body.results
       IN /\ response.body.status = "OK"
          /\ Len(res) = last - first
          /\ \A i \in 1..(last - first) : res[i] = PlaceInfo(all_places[first + i])

\* the example: 12 records, top_n = 5, page = 2 gives records 5..9 (0-based)
C8_Witness ==
    /\ SearchReturned
    /\ Len(all_places) = 12
    /\ top_n = 5
    /\ page = 2
    /\ [i \in 1..Len(response.body.results) |-> response.body.results[i].place_id]
         = <<all_places[6].place_id, all_places[7].place_id, all_places[8].place_id,
             all_places[9].place_id, all_places[10].place_id>>
    /\ response.body.pagination.total_pages = 3
    /\ response.body.pagination.has_next_page
    /\ response.body.pagination.has_prev_page

RECURSIVE ConcatPages(_, _, _)
\* the results of pages 1..n of the aggregate, concatenated
ConcatPages(places, t, n) ==
    IF n = 0
    THEN <<>>
    ELSE ConcatPages(places, t, n - 1) \o search_places(places, t, n).value.results

(***************************************************************************)
(* C9.  For a non-empty aggregate and any top_n in 1..60, every page       *)
(* 1..total_pages is returned (none is rejected), their results            *)
(* concatenated are the whole aggregate in order (no gap, no overlap),     *)
(* and the page the request asked for is the page of that sequence.        *)
(***************************************************************************)
C9_PagesPartitionAggregate ==
    (SearchAnswered /\ Len(all_places) > 0)
    => LET n == Ceil(Len(all_places), top_n)
       IN /\ \A p \in 1..n : ~search_places(all_places, top_n, p).raised
          /\ ConcatPages(all_places, top_n, n)
               = [i \in 1..Len(all_places) |-> PlaceInfo(all_places[i])]
          /\ (page <= n /\ response.status_code = 200)
               => response.body.results
                    = search_places(all_places, top_n, page).value.results

\* three pages, the last one partial
C9_Witness ==
    /\ SearchReturned
    /\ Len(all_places) = 12
    /\ top_n = 5
    /\ page = 3
    /\ Len(response.body.results) = 2

(***************************************************************************)
(* C10.  One call of get_all_places issues at most 3 requests to the       *)
(* places provider, whatever max_results is and however many cursors the   *)
(* provider returns.                                                       *)
(***************************************************************************)
C10_AtMostThreeRequests == Len(PlacesRequests) <= 3

\* three requests were made and the provider returned yet another cursor,
\* with fewer than max_results records accumulated
C10_Witness ==
    /\ pc = "done"
    /\ Len(PlacesRequests) = 3
    /\ next_page_token # None
    /\ Len(all_places) < max_results

(***************************************************************************)
(* Vocabulary of the properties about provider failures.                   *)
(***************************************************************************)
\* a provider request failed: it raised, or its status is not accepted
ProviderFailed(answer) == answer.raises \/ ~answer.accepted

\* the latest provider request failed
LastRequestFailed == replies # <<>> /\ ProviderFailed(replies[Len(replies)])

(***************************************************************************)
(* C11.  When a provider request fails (an exception, or a status other    *)
(* than OK and ZERO_RESULTS) after earlier pages succeeded, get_all_places *)
(* issues no further request and returns exactly the records of the        *)
(* earlier successful pages, truncated to max_results.                     *)
(***************************************************************************)
C11_FailureKeepsEarlierPages ==
    \A k \in 1..Len(replies) :
       (k >= 2 /\ ProviderFailed(replies[k]))
       => /\ k = Len(replies)
          /\ Len(PlacesRequests) = k
          /\ pc \in {"return", "done"}
          /\ \A j \in 1..(k - 1) : ~ProviderFailed(replies[j])
          /\ all_places = Take(Batch(0, served), max_results)

\* two pages were accumulated, the third request failed, and the search
\* answered from the two pages
C11_Witness ==
    /\ pc = "done"
    /\ endpoint = "find_places"
    /\ Len(replies) = 3
    /\ LastRequestFailed
    /\ served = 5
    /\ Len(all_places) = 5
    /\ response.status_code = 200
    /\ response.body.pagination.total_results = 5

(***************************************************************************)
(* C12.  POST /find-places answers with status 500 when the places         *)
(* provider fails on the first page (the call raises, or returns a status  *)
(* other than OK and ZERO_RESULTS); the failure is not reported as a       *)
(* successful ZERO_RESULTS response.                                       *)
(***************************************************************************)
C12_ProviderFailureIsServerError ==
    (/\ SearchAnswered
     /\ endpoint = "find_places"
     /\ Len(replies) = 1
     /\ LastRequestFailed)
    => /\ response.status_code = 500
       /\ response.body = NoBody

(***************************************************************************)
(* C13.  A request with top_n outside 1..60 or page < 1 is rejected with   *)
(* HTTP 400 on both /find-places and /find-places-llm: it is never         *)
(* answered with results or with another error status, and no provider     *)
(* request is made for it.                                                 *)
(***************************************************************************)
C13_InvalidRequestIsBadRequest ==
    (/\ pc # "idle"
     /\ endpoint \in {"find_places", "find_places_llm"}
     /\ (top_n \notin 1..TopNMax \/ page < 1))
    => /\ pc = "done"
       /\ response.status_code = 400
       /\ response.body = NoBody
       /\ PlacesRequests = <<>>

\* /find-places-llm with top_n = 61, after the LLM rewrote the query
C13_Witness ==
    /\ pc = "done"
    /\ endpoint = "find_places_llm"
    /\ top_n = TopNMax + 1
    /\ page = 1
    /\ ~llm_reply.failed
    /\ query # original_query
    /\ response.status_code = 400

(***************************************************************************)
(* C14.  In get_all_places every provider request that carries a           *)
(* continuation cursor comes directly after the blocking delay, which      *)
(* itself comes after the request that returned the cursor; the first      *)
(* request of a call carries no cursor and no delay precedes it.           *)
(***************************************************************************)
C14_DelayBeforeEveryCursorRequest ==
    /\ \A i \in 1..Len(events) :
          (events[i].op = "places" /\ events[i].page_token # None)
          => /\ i >= 3
             /\ events[i - 1] = SleepEvent
             /\ events[i - 2].op = "places"
    /\ PlacesRequests # <<>> => PlacesRequests[1].page_token = None
    /\ \A i \in 1..Len(events) :
          events[i].op = "sleep"
          => /\ i >= 2
             /\ events[i - 1].op = "places"
             /\ i < Len(events)
             /\ events[i + 1].op = "places"
             /\ events[i + 1].page_token # None

\* three requests, the second and third with a cursor and a delay before each
C14_Witness ==
    /\ pc = "done"
    /\ Len(PlacesRequests) = 3
    /\ Len(SelectSeq(events, LAMBDA e : e.op = "sleep")) = 2
    /\ PlacesRequests[2].page_token # None
    /\ PlacesRequests[3].page_token # None

(***************************************************************************)
(* C15.  preprocess_query_with_llm returns the raw query unchanged         *)
(* whenever the LLM call fails, and never raises; so /find-places-llm      *)
(* under a failing LLM answers with the status, results and pagination     *)
(* /find-places gives for the same request and the same provider answers,  *)
(* with original_query = processed_query = the raw query.                  *)
(***************************************************************************)
\* what POST /find-places answers for the request and the aggregate at hand
FindPlacesAnswer ==
    LET checked == search_places_validate(top_n, page)
    IN IF checked.raised
       THEN HttpResponse(checked)
       ELSE HttpResponse(search_places(all_places, top_n, page))

C15_FailingLlmFallsBackToRawQuery ==
    (/\ pc # "idle"
     /\ endpoint = "find_places_llm"
     /\ llm_reply.failed)
    => /\ original_query = RawQuery
       /\ query = RawQuery
       /\ pc = "done"
          => /\ response.status_code = FindPlacesAnswer.status_code
             /\ response.detail = FindPlacesAnswer.detail
             /\ response.body.status = FindPlacesAnswer.body.status
             /\ response.body.results = FindPlacesAnswer.body.results
             /\ response.body.pagination = FindPlacesAnswer.body.pagination
             /\ response.status_code = 200
                => /\ response.body.original_query = RawQuery
                   /\ response.body.processed_query = RawQuery

\* the LLM failed and the search answered a page of results
C15_Witness ==
    /\ pc = "done"
    /\ endpoint = "find_places_llm"
    /\ llm_reply.failed
    /\ response.status_code = 200
    /\ response.body.status = "OK"
    /\ Len(response.body.results) = 2
    /\ response.body.processed_query = RawQuery

(***************************************************************************)
(* C16.  In the chat UI (get_llm_decision) a turn in which the LLM         *)
(* requests the tool makes exactly one LLM call, the one with the tool     *)
(* declared, and no synthesis call; when the backend answered the POST,    *)
(* the value returned to the caller is the answer's JSON object unchanged: *)
(* its status, results and pagination.                                     *)
(***************************************************************************)
C16_StructuredModeReturnsBackendResponse ==
    (app = "ui" /\ TurnEnded /\ HonoredToolCall)
    => /\ Len(llm_calls) = 1
       /\ llm_calls[1].tools
       /\ llm_calls[1].reply.tool_calls = response_message.tool_calls
       /\ Len(backend_calls) <= 1
       /\ (Len(backend_calls) = 1 /\ backend_calls[1].reply.status_code \in 200..299)
          => LET answer == backend_calls[1].reply.body
                 returned == turn_outcome.value
             IN /\ turn_outcome.kind = "returned"
                /\ returned.kind = "dict"
                /\ returned.data.keys = {"status", "results", "pagination",
                                         "original_query", "processed_query"}
                /\ returned.data.status = answer.status
                /\ returned.data.results = answer.results
                /\ returned.data.pagination = answer.pagination

\* the backend answered OK with two places, and the dict was rendered
C16_Witness ==
    /\ app = "ui"
    /\ cpc = "prompt"
    /\ HonoredToolCall
    /\ Len(llm_calls) = 1
    /\ Len(backend_calls) = 1
    /\ backend_calls[1].reply.status_code = 200
    /\ turn_outcome.value.kind = "dict"
    /\ turn_outcome.value.data.status = "OK"
    /\ Len(turn_outcome.value.data.results) = 2
    /\ turn_outcome.value.data.pagination.total_results = 2

\* positions of the user messages of a history
UserMessages(history) == {i \in 1..Len(history) : history[i].role = "user"}

(***************************************************************************)
(* C17.  In the CLI the message history lives for the whole process: the   *)
(* messages passed to the LLM in user turn n hold the user messages of     *)
(* turns 1..n (and the answers of the earlier turns), so at least n user   *)
(* messages.                                                               *)
(***************************************************************************)
C17_CliHistorySpansTurns ==
    (app = "cli" /\ turns >= 1)
    => /\ Cardinality(UserMessages(messages)) >= turns
       /\ \A i \in 1..Len(llm_calls) :
             Cardinality(UserMessages(llm_calls[i].messages)) >= turns

ToolCallTurnEnded ==
    /\ TurnEnded
    /\ FirstResponded
    /\ Len(response_message.tool_calls) >= 1

(***************************************************************************)
(* C19 as stated.  When the LLM response carries k >= 1 tool calls,        *)
(* exactly one backend search is dispatched in the turn, with the          *)
(* arguments of tool_calls[0], and the turn does not raise.                *)
(***************************************************************************)
C19_ExactlyOneDispatch ==
    ToolCallTurnEnded
    => /\ Len(backend_calls) = 1
       /\ backend_calls[1].query
            = parse_arguments(response_message.tool_calls[1].function.arguments).query

(***************************************************************************)
(* C19 as amended.  When the LLM response carries k >= 1 tool calls, at    *)
(* most one backend search is dispatched in the turn: exactly one, with    *)
(* the query of tool_calls[0], when the arguments of tool_calls[0] parse   *)
(* to a JSON object (and, in the CLI, tool_calls[0] names the declared     *)
(* tool), and none otherwise.  The other k-1 tool calls are never parsed   *)
(* or dispatched: a parse error of the turn is the one of tool_calls[0].   *)
(***************************************************************************)
C19_OnlyFirstToolCallDispatched ==
    ToolCallTurnEnded
    => LET first == response_message.tool_calls[1]
           args == parse_arguments(first.function.arguments)
           dispatched == /\ ~args.raised
                         /\ app = "cli" => first.function.name = ToolName
       IN /\ Len(backend_calls) = IF dispatched THEN 1 ELSE 0
          /\ dispatched => backend_calls[1].query = args.query
          /\ turn_outcome.exc \in {"JSONDecodeError", "AttributeError"}
             => /\ args.raised
                /\ turn_outcome.exc = args.exc
                /\ app = "cli"

\* two tool calls, the first with a query and the second with arguments that
\* do not parse: one search, with the first call's query
C19_Witness ==
    /\ ToolCallTurnEnded
    /\ Len(response_message.tool_calls) = 2
    /\ response_message.tool_calls[1].function.arguments = ArgsQuery
    /\ response_message.tool_calls[2].function.arguments = ArgsTruncated
    /\ Len(backend_calls) = 1
    /\ backend_calls[1].query # NoneStr
    /\ backend_calls[1].reply.status_code = 200

(***************************************************************************)
(* C20.  In get_all_places the provider requests are sequential and        *)
(* chained.  A request is issued only when fewer than max_results records  *)
(* are accumulated and fewer than 3 requests were made; the first carries  *)
(* no cursor; request k+1 is issued only if request k returned an accepted *)
(* status (OK, ZERO_RESULTS) together with a cursor, and carries exactly   *)
(* that cursor.  Once an answer has no cursor or the accumulated count     *)
(* reaches max_results, no further request is made.                        *)
(***************************************************************************)
C20_RequestsChainedByCursor ==
    [][/\ Len(PlacesRequests') > Len(PlacesRequests)
          => /\ Len(PlacesRequests') = Len(PlacesRequests) + 1
             /\ Len(replies) = Len(PlacesRequests)
             /\ Len(replies') = Len(PlacesRequests')
             /\ Len(all_places) < max_results
             /\ Len(PlacesRequests) < 3
             /\ LET request == PlacesRequests'[Len(PlacesRequests')]
                IN IF replies = <<>>
                   THEN request.page_token = None
                   ELSE LET previous == replies[Len(replies)]
                        IN /\ ~ProviderFailed(previous)
                           /\ previous.token # None
                           /\ request.page_token = previous.token
       /\ (/\ replies' # <<>>
           /\ \/ replies'[Len(replies')].token = None
              \/ Len(all_places') >= max_results')
          => pc' \in {"return", "done"}]_vars

\* three requests: the second carries the first answer's cursor, the third
\* the different cursor of the second answer
C20_Witness ==
    /\ pc = "done"
    /\ Len(PlacesRequests) = 3
    /\ Len(replies) = 3
    /\ PlacesRequests[1].page_token = None
    /\ PlacesRequests[2].page_token = replies[1].token
    /\ PlacesRequests[3].page_token = replies[2].token
    /\ replies[1].token # replies[2].token
    /\ replies[3].token = None
    /\ Len(all_places) < max_results

(***************************************************************************)
(* C21.  In the history the CLI passes to the second LLM call, every tool  *)
(* call of the appended assistant message is answered by a tool message    *)
(* that comes after that assistant message and carries the call's id,      *)
(* also when the LLM emitted more than one tool call.                      *)
(***************************************************************************)
C21_EveryToolCallAnswered ==
    (app = "cli" /\ Len(llm_calls) = 2)
    => LET history == llm_calls[2].messages
       IN \A i \in ToolCallMessages(history) :
             \A j \in 1..Len(history[i].tool_calls) :
                \E m \in ToolResultMessages(history) :
                   /\ m > i
                   /\ history[m].tool_call_id = history[i].tool_calls[j].id

(***************************************************************************)
(* C22.  In the chat UI, after any number of completed user turns the      *)
(* stored history is the system prompt followed by strictly alternating    *)
(* user and assistant messages: the first message is the only system       *)
(* message, there is no tool message, and every turn has appended one user *)
(* message and exactly one assistant message, whatever get_llm_decision    *)
(* returned.                                                               *)
(***************************************************************************)
C22_UiHistoryAlternates ==
    (app = "ui" /\ cpc = "prompt")
    => /\ Len(messages) = 1 + 2 * turns
       /\ messages[1].role = "system"
       /\ \A i \in 2..Len(messages) :
             messages[i].role = IF i % 2 = 0 THEN "user" ELSE "assistant"

\* the request was rejected for its top_n or page
RejectedAsBadRequest ==
    /\ pc = "done"
    /\ endpoint \in {"find_places", "find_places_llm"}
    /\ response.status_code = 400

(***************************************************************************)
(* C23 as stated.  A request rejected with 400 for an invalid top_n or     *)
(* page causes no external call at all, neither a provider request nor an  *)
(* LLM request, on /find-places and on /find-places-llm.                   *)
(***************************************************************************)
C23_RejectedRequestMakesNoCall == RejectedAsBadRequest => events = <<>>

(***************************************************************************)
(* C23 as amended.  A request rejected with 400 for an invalid top_n or    *)
(* page causes no provider request and no delay on either endpoint.  On    *)
(* /find-places it causes no external call at all; on /find-places-llm     *)
(* exactly one LLM request, the preprocessing of the query, is issued      *)
(* before the rejection.                                                   *)
(***************************************************************************)
C23_RejectedRequestMakesNoProviderCall ==
    RejectedAsBadRequest
    => /\ PlacesRequests = <<>>
       /\ replies = <<>>
       /\ events = IF endpoint = "find_places_llm" THEN <<LlmEvent>> ELSE <<>>

\* /find-places-llm with page = 0: the LLM was called, the provider was not
C23_Witness ==
    /\ RejectedAsBadRequest
    /\ endpoint = "find_places_llm"
    /\ top_n = DefaultTopN
    /\ page = 0
    /\ events = <<LlmEvent>>
    /\ response.detail = "page must be 1 or greater"

====
